---- MODULE Spec2Model ----
(***************************************************************************)
(* Model of src/bot.py (Dunya Jewellery storefront bot): the per-user      *)
(* cart, the size selection memory and the checkout dialogue.              *)
(*                                                                         *)
(* Python dicts are functions whose DOMAIN is the set of keys present.     *)
(* Texts are sequences of one-character strings.  Every handler is one     *)
(* action, atomic up to its first await that is followed by a state        *)
(* change; only the COMMENT branch of checkout_flow changes state after an *)
(* await, so it is split at its three sends (send_message, send_contact,   *)
(* answer) and other events may run between them (the dispatcher handles   *)
(* each update as its own task).  A reply that is the last statement of a  *)
(* handler is recorded in `last`, its delivery is not modelled.            *)
(* The stateless navigation callbacks (go_catalog, back_catalog,           *)
(* open_product) and the prices of products.json are left out.             *)
(***************************************************************************)
EXTENDS Integers, Sequences, FiniteSets, TLC

\* ------------------------------------------------------------- bounds
MaxQty == 2
MaxLines == 2
NumSizes == 2
MaxTasks == 1

\* ------------------------------------------------------------- constants
Users == {"u1"}
Products == {"ring1"}
SIZES == <<15, 16, 17, 18, 19>>
DefaultSize == 17

\* The sizes a size button is pressed for: SIZES[3], SIZES[4], ...
OfferedSizes == {SIZES[i] : i \in {j \in 1..Len(SIZES) : j >= 3 /\ j < 3 + NumSizes}}

\* ------------------------------------------------------------- dicts
EmptyDict == [k \in {} |-> 0]
Get(d, k, default) == IF k \in DOMAIN d THEN d[k] ELSE default
Put(d, k, v) == [x \in (DOMAIN d) \cup {k} |-> IF x = k THEN v ELSE d[x]]
Pop(d, k) == [x \in (DOMAIN d) \ {k} |-> d[x]]

\* ------------------------------------------------------------- texts
Digits == {"0", "1", "2", "3", "4", "5", "6", "7", "8", "9"}
IsDigit(c) == c \in Digits
IsSpace(c) == c = " "
IsDigitOrPlus(c) == c \in Digits \/ c = "+"

RECURSIVE lstrip(_)
lstrip(s) == IF s # <<>> /\ IsSpace(Head(s)) THEN lstrip(Tail(s)) ELSE s
RECURSIVE rstrip(_)
rstrip(s) == IF s # <<>> /\ IsSpace(s[Len(s)]) THEN rstrip(SubSeq(s, 1, Len(s) - 1)) ELSE s
\* No .strip(): the text is taken as it came.
strip_identity(s) == s

strip(s) == rstrip(lstrip(s))
startswith(s, p) == Len(s) >= Len(p) /\ SubSeq(s, 1, Len(p)) = p

\* Optional[str]: None is a value no text equals.
None == <<"None">>

normalize_phone(raw) ==
    IF raw = <<>> THEN None
    ELSE LET s0 == strip(raw)
             s1 == SelectSeq(s0, IsDigitOrPlus)
             s == IF startswith(s1, <<"9", "9", "8">>) THEN <<"+">> \o s1 ELSE s1
             digits == SelectSeq(s, IsDigit)
         IN  IF startswith(digits, <<"9", "9", "8">>) /\ Len(digits) = 12
                 THEN <<"+">> \o digits
             ELSE IF /\ Len(s) = 13
                     /\ SubSeq(s, 1, 4) = <<"+", "9", "9", "8">>
                     /\ \A i \in 5..13 : IsDigit(s[i])
                 THEN s
             ELSE IF startswith(s, <<"+">>) /\ Len(SelectSeq(s, IsDigit)) >= 7
                 THEN s
             ELSE None

\* The three menu labels (their glyphs abbreviated) and the two commands.
LabelCatalog == <<"K", "a", "t">>
LabelCart == <<"K", "o", "r">>
LabelContact == <<"S", "v", "z">>
MenuLabels == {LabelCatalog, LabelCart, LabelContact}
CmdStart == <<"/", "s", "t", "a", "r", "t">>
CmdCancel == <<"/", "c", "a", "n", "c", "e", "l">>
Command(text, cmd) ==
    /\ startswith(text, cmd)
    /\ (Len(text) = Len(cmd) \/ IsSpace(text[Len(cmd) + 1]))

\* Inbound texts: none/empty, blank, the labels, a padded label, the commands,
\* a word, and a phone number in national form.
TextWord == <<"a", "b", "c">>
TextPhone == <<"9", "9", "8", "9", "0", "1", "2", "3", "4", "5", "6", "7">>
Texts ==
    {<<>>, <<" ">>, LabelCatalog, LabelCart, LabelContact, <<" ">> \o LabelCatalog,
     CmdStart, CmdCancel, TextWord, TextPhone}

\* The prompt of each step (lines 332-337, and the replies of lines 315, 347, 357, 363).
Prompt(step) ==
    CASE step = "name" -> "prompt_name"
      [] step = "phone" -> "prompt_phone"
      [] step = "address" -> "prompt_address"
      [] step = "comment" -> "prompt_comment"

\* ------------------------------------------------------------- state
VARIABLES
    cart,            \* uid -> list of {product_id, size, qty}
    checkout_state,  \* uid -> {step, data, selected_sizes}, keys optional
    tasks,           \* the checkout_flow coroutines suspended on a send
    last,            \* the handler that ran last: its input, reply and error
    ledger           \* history: sessions started and orders delivered, per uid

vars == <<cart, checkout_state, tasks, last, ledger>>

Slots == 1..MaxTasks
IdleTask == [pc |-> "idle", uid |-> "", msg |-> EmptyDict]
NoEvent == [handler |-> "", uid |-> "", text |-> <<>>, pid |-> "", idx |-> 0,
            reply |-> "", error |-> "none"]
Event(h, u, reply) == [NoEvent EXCEPT !.handler = h, !.uid = u, !.reply = reply]

\* The ledger is a history variable: it is read by no handler.  It counts only
\* in the specification that starts it with counting on; elsewhere it stays
\* as it is, so that it adds no states.
NoLedger ==
    [counting |-> FALSE, sessions |-> [u \in Users |-> 0], orders |-> [u \in Users |-> 0]]
SessionStarted(l, u) == IF l.counting THEN [l EXCEPT !.sessions[u] = @ + 1] ELSE l
OrderDispatched(l, u) == IF l.counting THEN [l EXCEPT !.orders[u] = @ + 1] ELSE l

Init ==
    /\ cart = EmptyDict
    /\ checkout_state = EmptyDict
    /\ tasks = [s \in Slots |-> IdleTask]
    /\ last = NoEvent
    /\ ledger = NoLedger

\* ------------------------------------------------------------- cart engine
format_cart(c, user_id) ==
    LET items == Get(c, user_id, <<>>)
    IN  IF items = <<>> THEN [empty |-> TRUE, lines |-> <<>>]
        ELSE [empty |-> FALSE, lines |-> items]

get_selected_size(cs, user_id, product_id) ==
    LET st == Get(cs, user_id, EmptyDict)
        selected == Get(st, "selected_sizes", EmptyDict)
    IN  Get(selected, product_id, DefaultSize)

set_selected_size(cs, user_id, product_id, size) ==
    LET st0 == Get(cs, user_id, EmptyDict)
        st == IF "selected_sizes" \in DOMAIN st0 THEN st0
              ELSE Put(st0, "selected_sizes", EmptyDict)
    IN  Put(cs, user_id, Put(st, "selected_sizes", Put(st["selected_sizes"], product_id, size)))

\* add_to_cart without the merge loop: every add appends a line.
add_to_cart_always_append(c, cs, user_id, product_id) ==
    Put(c, user_id,
        Append(Get(c, user_id, <<>>),
               [product_id |-> product_id,
                size |-> Get(Get(Get(cs, user_id, EmptyDict), "selected_sizes", EmptyDict),
                             product_id, DefaultSize),
                qty |-> 1]))

add_to_cart(c, cs, user_id, product_id) ==
    LET size == get_selected_size(cs, user_id, product_id)
        items == Get(c, user_id, <<>>)
        hits == {i \in 1..Len(items) :
                    items[i].product_id = product_id /\ items[i].size = size}
    IN  IF hits # {}
            THEN LET i == CHOOSE j \in hits : \A k \in hits : j <= k
                 IN  Put(c, user_id, [items EXCEPT ![i].qty = @ + 1])
        ELSE Put(c, user_id,
                 Append(items, [product_id |-> product_id, size |-> size, qty |-> 1]))

\* list.pop(idx), idx counted from 0
pop(items, idx) == SubSeq(items, 1, idx) \o SubSeq(items, idx + 2, Len(items))

\* The model's bounds on a cart (not in the program).
WithinBounds(items) ==
    /\ Len(items) <= MaxLines
    /\ \A i \in 1..Len(items) : items[i].qty <= MaxQty

\* ------------------------------------------------------------- routing
\* The message handlers in the order they are registered: the first whose
\* filter matches handles the message.
Route(text) ==
    IF Command(text, CmdStart) THEN "start"
    ELSE IF Command(text, CmdCancel) THEN "cancel"
    ELSE IF text = LabelCatalog THEN "show_catalog"
    ELSE IF text = LabelContact THEN "contact"
    ELSE IF text = LabelCart THEN "show_cart"
    ELSE "checkout_flow"

\* ------------------------------------------------------------- handlers
start(u, text) ==
    /\ Route(text) = "start"
    /\ last' = [Event("start", u, "welcome") EXCEPT !.text = text]
    /\ UNCHANGED <<cart, checkout_state, tasks, ledger>>

cancel(u, text) ==
    /\ Route(text) = "cancel"
    /\ IF u \in DOMAIN checkout_state
          THEN /\ checkout_state' = Pop(checkout_state, u)
               /\ last' = [Event("cancel", u, "cancelled") EXCEPT !.text = text]
          ELSE /\ checkout_state' = checkout_state
               /\ last' = [Event("cancel", u, "no_active") EXCEPT !.text = text]
    /\ UNCHANGED <<cart, tasks, ledger>>

show_catalog(u, text) ==
    /\ Route(text) = "show_catalog"
    /\ last' = [Event("show_catalog", u, "catalog") EXCEPT !.text = text]
    /\ UNCHANGED <<cart, checkout_state, tasks, ledger>>

contact(u, text) ==
    /\ Route(text) = "contact"
    /\ last' = [Event("contact", u, "contact") EXCEPT !.text = text]
    /\ UNCHANGED <<cart, checkout_state, tasks, ledger>>

show_cart(u, text) ==
    /\ Route(text) = "show_cart"
    /\ last' = [Event("show_cart", u, "cart") EXCEPT !.text = text]
    /\ UNCHANGED <<cart, checkout_state, tasks, ledger>>

\* pick_size that also rewrites the size of the product's lines in the cart.
pick_size_retroactive(u, pid, size) ==
    /\ checkout_state' = set_selected_size(checkout_state, u, pid, size)
    /\ cart' = [v \in DOMAIN cart |->
                   IF v = u
                       THEN [i \in 1..Len(cart[v]) |->
                                IF cart[v][i].product_id = pid
                                    THEN [cart[v][i] EXCEPT !.size = size]
                                    ELSE cart[v][i]]
                   ELSE cart[v]]
    /\ last' = [Event("pick_size", u, "size_picked") EXCEPT !.pid = pid]
    /\ UNCHANGED <<tasks, ledger>>

pick_size(u, pid, size) ==
    /\ checkout_state' = set_selected_size(checkout_state, u, pid, size)
    /\ last' = [Event("pick_size", u, "size_picked") EXCEPT !.pid = pid]
    /\ UNCHANGED <<cart, tasks, ledger>>

add_item(u, pid) ==
    /\ WithinBounds(add_to_cart(cart, checkout_state, u, pid)[u])
    /\ cart' = add_to_cart(cart, checkout_state, u, pid)
    /\ last' = [Event("add_item", u, "added") EXCEPT !.pid = pid]
    /\ UNCHANGED <<checkout_state, tasks, ledger>>

\* clear_cart that drops the user's checkout_state entry with the cart.
clear_cart_resets_sizes(u) ==
    /\ cart' = Put(cart, u, <<>>)
    /\ checkout_state' = Pop(checkout_state, u)
    /\ last' = Event("clear_cart", u, "cleared")
    /\ UNCHANGED <<tasks, ledger>>

clear_cart(u) ==
    /\ cart' = Put(cart, u, <<>>)
    /\ last' = Event("clear_cart", u, "cleared")
    /\ UNCHANGED <<checkout_state, tasks, ledger>>

inc_item(u, idx) ==
    LET items == Get(cart, u, <<>>)
    IN  /\ IF 0 <= idx /\ idx < Len(items)
              THEN /\ items[idx + 1].qty < MaxQty
                   /\ cart' = Put(cart, u, [items EXCEPT ![idx + 1].qty = @ + 1])
              ELSE cart' = cart
        /\ last' = [Event("inc_item", u, "cart") EXCEPT !.idx = idx]
        /\ UNCHANGED <<checkout_state, tasks, ledger>>

\* dec_item without the pop: a line may stay with quantity 0.
dec_item_no_pop(u, idx) ==
    LET items == Get(cart, u, <<>>)
    IN  /\ IF 0 <= idx /\ idx < Len(items)
              THEN cart' = Put(cart, u, [items EXCEPT ![idx + 1].qty = @ - 1])
              ELSE cart' = cart
        /\ last' = [Event("dec_item", u, "cart") EXCEPT !.idx = idx]
        /\ UNCHANGED <<checkout_state, tasks, ledger>>

dec_item(u, idx) ==
    LET items == Get(cart, u, <<>>)
        less == [items EXCEPT ![idx + 1].qty = @ - 1]
    IN  /\ IF 0 <= idx /\ idx < Len(items)
              THEN IF less[idx + 1].qty <= 0
                      THEN cart' = Put(cart, u, pop(less, idx))
                      ELSE cart' = Put(cart, u, less)
              ELSE cart' = cart
        /\ last' = [Event("dec_item", u, "cart") EXCEPT !.idx = idx]
        /\ UNCHANGED <<checkout_state, tasks, ledger>>

\* del_item without the lower bound: a negative index counts from the end.
del_item_no_lower_bound(u, idx) ==
    LET items == Get(cart, u, <<>>)
        at == IF idx < 0 THEN Len(items) + idx ELSE idx
    IN  /\ IF idx < Len(items) /\ 0 <= at
              THEN cart' = Put(cart, u, pop(items, at))
              ELSE cart' = cart
        /\ last' = [Event("del_item", u, "cart") EXCEPT !.idx = idx]
        /\ UNCHANGED <<checkout_state, tasks, ledger>>

del_item(u, idx) ==
    LET items == Get(cart, u, <<>>)
    IN  /\ IF 0 <= idx /\ idx < Len(items)
              THEN cart' = Put(cart, u, pop(items, idx))
              ELSE cart' = cart
        /\ last' = [Event("del_item", u, "cart") EXCEPT !.idx = idx]
        /\ UNCHANGED <<checkout_state, tasks, ledger>>

\* checkout_start that opens the session at the second step.
checkout_start_at_phone(u) ==
    /\ IF Get(cart, u, <<>>) = <<>>
          THEN /\ checkout_state' = checkout_state
               /\ last' = Event("checkout_start", u, "cart_empty")
          ELSE /\ checkout_state' =
                      Put(checkout_state, u,
                          [step |-> "phone", data |-> EmptyDict,
                           selected_sizes |->
                               Get(Get(checkout_state, u, EmptyDict), "selected_sizes", EmptyDict)])
               /\ last' = Event("checkout_start", u, Prompt("phone"))
    /\ ledger' = IF Get(cart, u, <<>>) = <<>> THEN ledger ELSE SessionStarted(ledger, u)
    /\ UNCHANGED <<cart, tasks>>

\* checkout_start without the empty-cart rejection.
checkout_start_no_rejection(u) ==
    /\ checkout_state' =
           Put(checkout_state, u,
               [step |-> "name", data |-> EmptyDict,
                selected_sizes |->
                    Get(Get(checkout_state, u, EmptyDict), "selected_sizes", EmptyDict)])
    /\ last' = Event("checkout_start", u, Prompt("name"))
    /\ ledger' = SessionStarted(ledger, u)
    /\ UNCHANGED <<cart, tasks>>

checkout_start(u) ==
    /\ IF Get(cart, u, <<>>) = <<>>
          THEN /\ checkout_state' = checkout_state
               /\ last' = Event("checkout_start", u, "cart_empty")
               /\ ledger' = ledger
          ELSE LET prev == Get(checkout_state, u, EmptyDict)
                   selected_sizes == Get(prev, "selected_sizes", EmptyDict)
               IN  /\ checkout_state' =
                          Put(checkout_state, u,
                              [step |-> "name", data |-> EmptyDict,
                               selected_sizes |-> selected_sizes])
                   /\ last' = Event("checkout_start", u, Prompt("name"))
                   /\ ledger' = SessionStarted(ledger, u)
    /\ UNCHANGED <<cart, tasks>>

\* The lowest free coroutine slot (0 when MaxTasks coroutines are suspended).
FreeSlot ==
    IF \E s \in Slots : tasks[s].pc = "idle"
        THEN CHOOSE s \in Slots : tasks[s].pc = "idle" /\ \A r \in Slots : tasks[r].pc = "idle" => s <= r
    ELSE 0

\* checkout_flow up to its first await.  In the COMMENT branch the handler
\* renders the order and suspends on bot.send_message to the operator; of the
\* rendered msg the suspended coroutine keeps the cart listing (the collected
\* fields in it are those of the session at this step).
checkout_flow(u, m_text) ==
    /\ Route(m_text) = "checkout_flow"
    /\ UNCHANGED ledger
    /\ LET st == Get(checkout_state, u, EmptyDict)
           text == strip(m_text)
           ev(reply) == [Event("checkout_flow", u, reply) EXCEPT !.text = m_text]
           raise(err) == [ev("") EXCEPT !.error = err]
       IN  IF st = EmptyDict
               THEN /\ last' = ev("")
                    /\ UNCHANGED <<cart, checkout_state, tasks>>
           ELSE IF text = <<>>
               THEN /\ last' = ev("empty")
                    /\ UNCHANGED <<cart, checkout_state, tasks>>
           ELSE IF "step" \notin DOMAIN st
               THEN /\ last' = raise("KeyError")
                    /\ UNCHANGED <<cart, checkout_state, tasks>>
           ELSE IF text \in MenuLabels
               THEN /\ last' = ev(Prompt(st["step"]))
                    /\ UNCHANGED <<cart, checkout_state, tasks>>
           ELSE IF st["step"] = "name"
               THEN /\ checkout_state' =
                          Put(checkout_state, u,
                              [st EXCEPT !["data"] = Put(@, "name", text), !["step"] = "phone"])
                    /\ last' = ev(Prompt("phone"))
                    /\ UNCHANGED <<cart, tasks>>
           ELSE IF st["step"] = "phone"
               THEN LET normalized == normalize_phone(text)
                    IN  IF normalized = None \/ normalized = <<>>
                            THEN /\ last' = ev("bad_phone")
                                 /\ UNCHANGED <<cart, checkout_state, tasks>>
                        ELSE /\ checkout_state' =
                                    Put(checkout_state, u,
                                        [st EXCEPT !["data"] = Put(@, "phone", normalized),
                                                   !["step"] = "address"])
                             /\ last' = ev(Prompt("address"))
                             /\ UNCHANGED <<cart, tasks>>
           ELSE IF st["step"] = "address"
               THEN /\ checkout_state' =
                          Put(checkout_state, u,
                              [st EXCEPT !["data"] = Put(@, "address", text), !["step"] = "comment"])
                    /\ last' = ev(Prompt("comment"))
                    /\ UNCHANGED <<cart, tasks>>
           ELSE IF st["step"] = "comment"
               THEN LET data == Put(st["data"], "comment", text)
                    IN  /\ checkout_state' = Put(checkout_state, u, [st EXCEPT !["data"] = data])
                        /\ IF {"name", "address"} \subseteq DOMAIN data
                              THEN /\ FreeSlot # 0
                                   /\ tasks' =
                                          [tasks EXCEPT ![FreeSlot] =
                                              [pc |-> "send_message", uid |-> u,
                                               msg |-> [cart |-> format_cart(cart, u)]]]
                                   /\ last' = ev("submitting")
                              ELSE /\ tasks' = tasks
                                   /\ last' = raise("KeyError")
                        /\ UNCHANGED cart
           ELSE /\ last' = ev("")
                /\ UNCHANGED <<cart, checkout_state, tasks>>

\* bot.send_message(ADMIN_CHAT_ID, msg) returns or raises; a raise leaves the handler.
send_message_done(s, ok) ==
    /\ tasks[s].pc = "send_message"
    /\ IF ok
          THEN /\ tasks' = [tasks EXCEPT ![s].pc = "send_contact"]
               /\ last' = Event("checkout_flow.send_message", tasks[s].uid, "order")
               /\ ledger' = OrderDispatched(ledger, tasks[s].uid)
          ELSE /\ tasks' = [tasks EXCEPT ![s] = IdleTask]
               /\ last' = [Event("checkout_flow.send_message", tasks[s].uid, "")
                              EXCEPT !.error = "SendError"]
               /\ ledger' = ledger
    /\ UNCHANGED <<cart, checkout_state>>

\* send_contact without the try/except: a raise leaves the handler.
send_contact_done_uncaught(s, ok) ==
    /\ tasks[s].pc = "send_contact"
    /\ IF ok
          THEN /\ tasks' = [tasks EXCEPT ![s].pc = "answer"]
               /\ last' = Event("checkout_flow.send_contact", tasks[s].uid, "contact_card")
          ELSE /\ tasks' = [tasks EXCEPT ![s] = IdleTask]
               /\ last' = [Event("checkout_flow.send_contact", tasks[s].uid, "")
                              EXCEPT !.error = "SendError"]
    /\ UNCHANGED <<cart, checkout_state, ledger>>

\* bot.send_contact returns or raises; the raise is caught (try/except: pass).
send_contact_done(s, ok) ==
    /\ tasks[s].pc = "send_contact"
    /\ tasks' = [tasks EXCEPT ![s].pc = "answer"]
    /\ last' = Event("checkout_flow.send_contact", tasks[s].uid,
                     IF ok THEN "contact_card" ELSE "")
    /\ UNCHANGED <<cart, checkout_state, ledger>>

\* m.answer("order accepted") returns, then the cart is cleared and the
\* checkout_state entry popped; or it raises and the handler is left.
answer_done(s, ok) ==
    /\ tasks[s].pc = "answer"
    /\ tasks' = [tasks EXCEPT ![s] = IdleTask]
    /\ UNCHANGED ledger
    /\ IF ok
          THEN /\ cart' = Put(cart, tasks[s].uid, <<>>)
               /\ checkout_state' = Pop(checkout_state, tasks[s].uid)
               /\ last' = Event("checkout_flow.answer", tasks[s].uid, "order_accepted")
          ELSE /\ UNCHANGED <<cart, checkout_state>>
               /\ last' = [Event("checkout_flow.answer", tasks[s].uid, "")
                              EXCEPT !.error = "SendError"]

\* ------------------------------------------------------------- specification
\* Line indices a button may carry: those of a full cart and one below them
\* (a stale button of a cart that has shrunk carries an index >= its length).
Indices == (0 - 1)..(MaxLines - 1)

Next ==
    \/ \E u \in Users, text \in Texts : start(u, text)
    \/ \E u \in Users, text \in Texts : cancel(u, text)
    \/ \E u \in Users, text \in Texts : show_catalog(u, text)
    \/ \E u \in Users, text \in Texts : contact(u, text)
    \/ \E u \in Users, text \in Texts : show_cart(u, text)
    \/ \E u \in Users, pid \in Products, size \in OfferedSizes : pick_size(u, pid, size)
    \/ \E u \in Users, pid \in Products : add_item(u, pid)
    \/ \E u \in Users : clear_cart(u)
    \/ \E u \in Users, idx \in Indices : inc_item(u, idx)
    \/ \E u \in Users, idx \in Indices : dec_item(u, idx)
    \/ \E u \in Users, idx \in Indices : del_item(u, idx)
    \/ \E u \in Users : checkout_start(u)
    \/ \E u \in Users, text \in Texts : checkout_flow(u, text)
    \/ \E s \in Slots, ok \in BOOLEAN : send_message_done(s, ok)
    \/ \E s \in Slots, ok \in BOOLEAN : send_contact_done(s, ok)
    \/ \E s \in Slots, ok \in BOOLEAN : answer_done(s, ok)

Spec == Init /\ [][Next]_vars

\* ------------------------------------------------------------- observations
Lines(c, u) == Get(c, u, <<>>)
StepOf(cs, u) ==
    IF u \in DOMAIN cs /\ "step" \in DOMAIN cs[u] THEN cs[u]["step"] ELSE "none"
Collected(cs, u) == IF StepOf(cs, u) = "none" THEN EmptyDict ELSE cs[u]["data"]
SizeMemory(cs, u) == [p \in Products |-> get_selected_size(cs, u, p)]
ActiveSteps == {"name", "phone", "address", "comment"}
OrderDelivered(s) == tasks[s].pc \in {"send_contact", "answer"}

\* ------------------------------------------------------------- claims

\* C1: no reachable state has the operator's order notification of a user
\* delivered, the handler suspended on a later send (so that other events of the
\* user are processed), and that user's cart still non-empty or session still
\* present.
C1_SubmissionAtomic ==
    \A s \in Slots :
        OrderDelivered(s) =>
            /\ Lines(cart, tasks[s].uid) = <<>>
            /\ StepOf(checkout_state, tasks[s].uid) = "none"

\* C2: a cancel at an active step returns the user to NONE and leaves the
\* user's cart and every per-product selected size as they were.
C2_CancelKeepsCartAndSizes ==
    [][\A u \in Users :
          (last'.handler = "cancel" /\ last'.uid = u
              /\ StepOf(checkout_state, u) \in ActiveSteps)
          => /\ StepOf(checkout_state', u) = "none"
             /\ cart' = cart
             /\ SizeMemory(checkout_state', u) = SizeMemory(checkout_state, u)]_vars

\* C3: neither starting a checkout nor completing it by a successful submission
\* changes any selected size, so the next add uses the size picked before.
C3_SizesSurviveCheckout ==
    [][\A u \in Users :
          (last'.uid = u
              /\ \/ last'.handler = "checkout_start"
                 \/ last'.handler = "checkout_flow.answer" /\ last'.reply = "order_accepted")
          => SizeMemory(checkout_state', u) = SizeMemory(checkout_state, u)]_vars

\* C4: the step of a user changes only one place forward along
\* NONE, NAME, PHONE, ADDRESS, COMMENT, NONE, or from an active step to NONE by
\* cancel, and while a session stays or advances the fields collected at
\* earlier steps are kept.
C4_Forward ==
    {<<"none", "name">>, <<"name", "phone">>, <<"phone", "address">>,
     <<"address", "comment">>, <<"comment", "none">>}
C4_LinearSteps ==
    [][\A u \in Users :
          LET a == StepOf(checkout_state, u)
              b == StepOf(checkout_state', u)
              d == Collected(checkout_state, u)
              e == Collected(checkout_state', u)
          IN  /\ \/ a = b
                 \/ <<a, b>> \in C4_Forward
                 \/ a \in ActiveSteps /\ b = "none" /\ last'.handler = "cancel"
              /\ (a \in ActiveSteps /\ b \in ActiveSteps)
                    => \A k \in (DOMAIN d) \ {"comment"} : k \in DOMAIN e /\ e[k] = d[k]]_vars

\* C5: at an active step a text equal to a menu label leaves the session as
\* it is and is answered with the prompt of the current step.
C5_MenuLabelReprompts ==
    [][\A u \in Users :
          (last'.uid = u /\ last'.text \in MenuLabels
              /\ StepOf(checkout_state, u) \in ActiveSteps)
          => /\ checkout_state' = checkout_state
             /\ last'.reply = Prompt(StepOf(checkout_state, u))]_vars

\* C6: processing a free-text message never raises: it is ignored, answered
\* with a re-prompt, advances the step, or starts the submission.
C6_FlowNeverRaises ==
    last.handler = "checkout_flow" =>
        /\ last.error = "none"
        /\ last.reply \in {"", "empty", "bad_phone", "submitting"}
                              \cup {Prompt(st) : st \in ActiveSteps}

\* C7: a cart never holds two lines of the same (product, size); an add of a
\* pair already present adds 1 to that line and keeps number and order of the
\* lines, an add of a new pair appends one line of quantity 1.
C7_Unique(items) ==
    \A i, j \in 1..Len(items) :
        (items[i].product_id = items[j].product_id /\ items[i].size = items[j].size) => i = j
C7_AddEffect(u) ==
    LET old == Lines(cart, u)
        new == Lines(cart', u)
        pair == [product_id |-> last'.pid, size |-> SizeMemory(checkout_state, u)[last'.pid]]
        at == {i \in 1..Len(old) :
                  old[i].product_id = pair.product_id /\ old[i].size = pair.size}
    IN  IF at # {}
            THEN /\ Len(new) = Len(old)
                 /\ \A i \in 1..Len(old) :
                       new[i] = IF i \in at THEN [old[i] EXCEPT !.qty = @ + 1] ELSE old[i]
        ELSE new = Append(old, [product_id |-> pair.product_id, size |-> pair.size, qty |-> 1])
C7_MergeOnDuplicate ==
    /\ [](\A u \in Users : C7_Unique(Lines(cart, u)))
    /\ [][\A u \in Users :
             (last'.handler = "add_item" /\ last'.uid = u) => C7_AddEffect(u)]_vars
\* An add has merged into the first of two lines.
C7_Witness ==
    \E u \in Users :
        /\ last.handler = "add_item" /\ last.uid = u
        /\ Len(Lines(cart, u)) = 2
        /\ Lines(cart, u)[1].qty = 2
        /\ Lines(cart, u)[1].size = SizeMemory(checkout_state, u)[last.pid]

\* C8: every cart line has quantity >= 1; a decrement of a line of quantity 1
\* removes the line and moves the later lines one place down.
C8_DecEffect(u) ==
    LET old == Lines(cart, u)
        new == Lines(cart', u)
        i == last'.idx + 1
    IN  (i \in 1..Len(old) /\ old[i].qty = 1)
            => /\ Len(new) = Len(old) - 1
               /\ \A j \in 1..Len(new) : new[j] = IF j < i THEN old[j] ELSE old[j + 1]
C8_QuantityPositive ==
    /\ [](\A u \in Users : \A i \in 1..Len(Lines(cart, u)) : Lines(cart, u)[i].qty >= 1)
    /\ [][\A u \in Users :
             (last'.handler = "dec_item" /\ last'.uid = u) => C8_DecEffect(u)]_vars
\* A decrement at index 0 has left a single line that holds the largest
\* quantity: the line decremented is gone and the second line moved up.
C8_Witness ==
    \E u \in Users :
        /\ last.handler = "dec_item" /\ last.uid = u /\ last.idx = 0
        /\ Len(Lines(cart, u)) = 1
        /\ Lines(cart, u)[1].qty = MaxQty

\* C9: inc_item, dec_item and del_item with an index below 0 or not below the
\* number of lines leave the carts as they are (no key created) and raise nothing.
C9_StaleIndexNoOp ==
    [][\A u \in Users :
          (last'.handler \in {"inc_item", "dec_item", "del_item"} /\ last'.uid = u
              /\ (last'.idx < 0 \/ last'.idx >= Len(Lines(cart, u))))
          => cart' = cart /\ last'.error = "none"]_vars
\* A negative index has been sent in for a cart of two lines.
C9_Witness ==
    \E u \in Users :
        /\ last.handler = "del_item" /\ last.uid = u /\ last.idx < 0
        /\ Len(Lines(cart, u)) = 2

\* C10: a checkout start with an empty or absent cart is rejected and changes
\* nothing; a session enters NAME only by a checkout start with a non-empty
\* cart, and then with no collected field.
C10_EmptyCartRejected ==
    [][\A u \in Users :
          /\ (last'.handler = "checkout_start" /\ last'.uid = u /\ Lines(cart, u) = <<>>)
                => /\ last'.reply = "cart_empty"
                   /\ UNCHANGED <<cart, checkout_state, tasks>>
          /\ (/\ StepOf(checkout_state', u) = "name"
              /\ \/ StepOf(checkout_state, u) # "name"
                 \/ last'.handler = "checkout_start" /\ last'.uid = u
                        /\ checkout_state' # checkout_state)
                => /\ last'.handler = "checkout_start" /\ last'.uid = u
                   /\ Lines(cart, u) # <<>>
                   /\ Collected(checkout_state', u) = EmptyDict]_vars
\* A start was rejected for a user who has picked a size and has no cart.
C10_Witness ==
    \E u \in Users :
        /\ last.handler = "checkout_start" /\ last.uid = u /\ last.reply = "cart_empty"
        /\ u \notin DOMAIN cart
        /\ u \in DOMAIN checkout_state

\* C11: at PHONE the name is collected, at ADDRESS the name and an accepted
\* phone ('+' first, at least 7 digits), at COMMENT name, phone and address;
\* a submission starts only from COMMENT with these three fields collected.
C11_AcceptedPhone(p) ==
    /\ p # <<>> /\ p[1] = "+"
    /\ Len(SelectSeq(p, IsDigit)) >= 7
C11_Needs(step) ==
    CASE step = "name" -> {}
      [] step = "phone" -> {"name"}
      [] step = "address" -> {"name", "phone"}
      [] step = "comment" -> {"name", "phone", "address"}
C11_StepHasFields(cs, u) ==
    StepOf(cs, u) \in ActiveSteps =>
        /\ C11_Needs(StepOf(cs, u)) \subseteq DOMAIN Collected(cs, u)
        /\ \A k \in DOMAIN Collected(cs, u) : Collected(cs, u)[k] # <<>>
        /\ "phone" \in DOMAIN Collected(cs, u) => C11_AcceptedPhone(Collected(cs, u)["phone"])
C11_FieldsBeforeOrder ==
    /\ [](\A u \in Users : C11_StepHasFields(checkout_state, u))
    /\ [][\A u \in Users :
             (last'.uid = u /\ \E s \in Slots : tasks[s].pc = "idle" /\ tasks'[s].pc # "idle")
             => /\ StepOf(checkout_state, u) = "comment"
                /\ C11_StepHasFields(checkout_state, u)]_vars
\* The operator's order has been delivered for a session at COMMENT.
C11_Witness ==
    \E u \in Users, s \in Slots :
        /\ OrderDelivered(s) /\ tasks[s].uid = u
        /\ StepOf(checkout_state, u) = "comment"
        /\ {"name", "phone", "address", "comment"} \subseteq DOMAIN Collected(checkout_state, u)

\* C12: at an active step a blank text, and at PHONE a text that cannot be a
\* phone (fewer than 7 digits), changes nothing and is answered with a
\* re-prompt; the step leaves PHONE only on a text with at least 7 digits.
C12_Blank(text) == \A i \in 1..Len(text) : text[i] = " "
C12_NoPhone(text) == Len(SelectSeq(text, IsDigit)) < 7
C12_InputErrorNoTransition ==
    [][\A u \in Users :
          LET step == StepOf(checkout_state, u)
          IN  /\ (/\ last'.handler = "checkout_flow" /\ last'.uid = u
                  /\ step \in ActiveSteps
                  /\ C12_Blank(last'.text) \/ (step = "phone" /\ C12_NoPhone(last'.text)))
                 => /\ UNCHANGED <<cart, checkout_state, tasks>>
                    /\ last'.error = "none"
                    /\ last'.reply \in {"empty", "bad_phone", Prompt(step)}
              /\ (step = "phone" /\ StepOf(checkout_state', u) = "address")
                 => /\ last'.handler = "checkout_flow" /\ last'.uid = u
                    /\ ~C12_NoPhone(last'.text)]_vars
\* A text without digits has been refused at PHONE.
C12_Witness ==
    \E u \in Users :
        /\ last.handler = "checkout_flow" /\ last.uid = u
        /\ last.reply = "bad_phone" /\ C12_NoPhone(last.text) /\ ~C12_Blank(last.text)
        /\ StepOf(checkout_state, u) = "phone"

\* ------------------------------------------------------------- phone inputs
\* A session waiting at PHONE (one line in the cart, the name given), and the
\* texts sent to it: every string of at most MaxAffix characters of
\* PhoneAlphabet, then a block of digits, then at most one more character;
\* and the three texts of the specification's examples.
MaxAffix == 2
PhoneAlphabet == {"9", "8", "+", "a", " "}
RECURSIVE Strings(_)
Strings(n) ==
    IF n = 0 THEN {<<>>}
    ELSE Strings(n - 1) \cup
         {Append(w, c) : w \in {v \in Strings(n - 1) : Len(v) = n - 1}, c \in PhoneAlphabet}
DigitBlocks ==
    {<<>>,
     <<"1", "2", "3", "4", "5", "6">>,
     <<"9", "0", "1", "2", "3", "4", "5", "6", "7">>,
     <<"9", "8", "9", "0", "1", "2", "3", "4", "5", "6", "7">>}
PhoneSpaced ==
    <<"+", "9", "9", "8", " ", "9", "0", " ", "1", "2", "3", " ", "4", "5", " ", "6", "7">>
PhoneInputs ==
    {a \o m \o b : a \in Strings(MaxAffix), m \in DigitBlocks, b \in Strings(1)}
        \cup {TextPhone, PhoneSpaced, TextWord}

InitPhone ==
    /\ cart = [u \in Users |-> <<[product_id |-> "ring1", size |-> DefaultSize, qty |-> 1]>>]
    /\ checkout_state =
           [u \in Users |-> [step |-> "phone", data |-> [name |-> TextWord],
                             selected_sizes |-> EmptyDict]]
    /\ tasks = [s \in Slots |-> IdleTask]
    /\ \E u \in Users :
           last = [Event("checkout_flow", u, Prompt("phone")) EXCEPT !.text = TextWord]
    /\ ledger = NoLedger

NextPhone ==
    \E u \in Users, text \in PhoneInputs :
        /\ StepOf(checkout_state, u) = "phone"
        /\ checkout_flow(u, text)

SpecPhone == InitPhone /\ [][NextPhone]_vars

\* C13: normalization follows the rule: drop every character that is neither
\* digit nor '+', put '+' before a result that begins with 998, accept iff the
\* result is +998 and 9 digits or begins with '+' and holds at least 7 digits;
\* both example numbers give +998901234567 and the example word is refused.
C13_Result(raw) ==
    LET kept == SelectSeq(raw, IsDigitOrPlus)
    IN  IF startswith(kept, <<"9", "9", "8">>) THEN <<"+">> \o kept ELSE kept
C13_Accepts(raw) ==
    LET r == C13_Result(raw)
    IN  \/ /\ Len(r) = 13
           /\ SubSeq(r, 1, 4) = <<"+", "9", "9", "8">>
           /\ \A i \in 5..13 : IsDigit(r[i])
        \/ /\ r # <<>> /\ r[1] = "+"
           /\ Len(SelectSeq(r, IsDigit)) >= 7
C13_PhoneRule ==
    \A u \in Users :
        (last.handler = "checkout_flow" /\ last.uid = u
            /\ last.reply \in {"bad_phone", Prompt("address")})
        => /\ C13_Accepts(last.text) <=> StepOf(checkout_state, u) = "address"
           /\ ~C13_Accepts(last.text) <=> last.reply = "bad_phone"
           /\ last.text \in {TextPhone, PhoneSpaced}
                 => Collected(checkout_state, u)["phone"] = <<"+">> \o TextPhone

\* C20: a phone stored in a session is one '+' followed by digits only, at
\* least 7 of them.
C20_WellFormed(p) ==
    /\ Len(p) >= 8
    /\ p[1] = "+"
    /\ \A i \in 2..Len(p) : IsDigit(p[i])
C20_StoredPhoneWellFormed ==
    \A u \in Users :
        "phone" \in DOMAIN Collected(checkout_state, u)
            => C20_WellFormed(Collected(checkout_state, u)["phone"])

\* C14: no cart operation (add, increment, decrement, remove, clear) changes a
\* selected size, and a line added after them is at the size selected.
C14_CartOps == {"add_item", "inc_item", "dec_item", "del_item", "clear_cart"}
C14_SizesSurviveCartOps ==
    [][\A u \in Users :
          (last'.handler \in C14_CartOps /\ last'.uid = u)
          => /\ SizeMemory(checkout_state', u) = SizeMemory(checkout_state, u)
             /\ last'.handler = "add_item"
                   => \E i \in 1..Len(Lines(cart', u)) :
                         /\ Lines(cart', u)[i].product_id = last'.pid
                         /\ Lines(cart', u)[i].size = SizeMemory(checkout_state, u)[last'.pid]]_vars
\* The cart was cleared while a size other than the default is selected.
C14_Witness ==
    \E u \in Users, p \in Products :
        /\ last.handler = "clear_cart" /\ last.uid = u
        /\ Lines(cart, u) = <<>>
        /\ SizeMemory(checkout_state, u)[p] # DefaultSize

\* C15: a size pick leaves every cart line as it is; the next add of the
\* product merges into or appends the line of the size now selected.
C15_PickKeepsLines ==
    [][\A u \in Users :
          /\ (last'.handler = "pick_size" /\ last'.uid = u)
                => /\ cart' = cart
                   /\ SizeMemory(checkout_state', u)[last'.pid] \in OfferedSizes
          /\ (last'.handler = "add_item" /\ last'.uid = u)
                => LET old == Lines(cart, u)
                       new == Lines(cart', u)
                       sel == SizeMemory(checkout_state, u)[last'.pid]
                   IN  \E i \in 1..Len(new) :
                          /\ new[i].product_id = last'.pid /\ new[i].size = sel
                          /\ new[i].qty = IF i <= Len(old) THEN old[i].qty + 1 ELSE 1
                          /\ \A j \in 1..Len(old) : j # i => new[j] = old[j]]_vars
\* A size was picked that differs from the size of the product's line in the cart.
C15_Witness ==
    \E u \in Users :
        /\ last.handler = "pick_size" /\ last.uid = u
        /\ Len(Lines(cart, u)) = 1
        /\ Lines(cart, u)[1].product_id = last.pid
        /\ Lines(cart, u)[1].size # SizeMemory(checkout_state, u)[last.pid]

\* C16: a failed send of the contact card is caught and the handler goes on
\* to the customer's confirmation exactly as after a successful one; a failed
\* send of the order notification ends the handler with an error and leaves
\* cart and session as they are.
C16_DeliveryFailures ==
    [][\A u \in Users :
          /\ (last'.handler = "checkout_flow.send_contact" /\ last'.uid = u)
                => /\ last'.error = "none"
                   /\ \E s \in Slots :
                         /\ tasks[s].pc = "send_contact" /\ tasks[s].uid = u
                         /\ tasks' = [tasks EXCEPT ![s].pc = "answer"]
                   /\ UNCHANGED <<cart, checkout_state>>
          /\ (last'.handler = "checkout_flow.send_message" /\ last'.uid = u
                /\ last'.reply # "order")
                => /\ last'.error = "SendError"
                   /\ UNCHANGED <<cart, checkout_state>>
                   /\ \E s \in Slots :
                         /\ tasks[s].pc = "send_message" /\ tasks[s].uid = u
                         /\ tasks' = [tasks EXCEPT ![s] = IdleTask]
          /\ (last'.handler = "checkout_flow.answer" /\ last'.uid = u
                /\ last'.reply = "order_accepted")
                => Lines(cart', u) = <<>> /\ u \notin DOMAIN checkout_state']_vars
\* The contact card failed and the handler waits on the customer's confirmation.
C16_Witness ==
    \E u \in Users, s \in Slots :
        /\ last.handler = "checkout_flow.send_contact" /\ last.uid = u
        /\ last.reply = ""
        /\ tasks[s].pc = "answer" /\ tasks[s].uid = u

\* C18: the lines removed by the clear step of a submission are the lines of
\* the cart snapshot rendered into the order that was dispatched.
C18_ClearsWhatWasOrdered ==
    [][\A s \in Slots :
          (/\ tasks[s].pc = "answer" /\ tasks'[s].pc = "idle"
           /\ last'.handler = "checkout_flow.answer"
           /\ last'.reply = "order_accepted")
          => Lines(cart, tasks[s].uid) = tasks[s].msg.cart.lines]_vars

\* C19: every order rendered for the operator lists at least one cart line.
C19_OrderHasLines ==
    \A s \in Slots :
        tasks[s].pc # "idle"
        => ~tasks[s].msg.cart.empty /\ tasks[s].msg.cart.lines # <<>>

\* ------------------------------------------------------------- sessions and orders
\* The checkout dialogue with the ledger counting: the user fills the cart,
\* presses the checkout button, answers the four prompts, and the sends of the
\* submission return or raise.  MaxSessions caps the sessions a user starts;
\* the orders are counted up to one past it.
MaxSessions == 2
DialogueTexts == {TextWord, TextPhone}

InitLedger ==
    /\ cart = EmptyDict
    /\ checkout_state = EmptyDict
    /\ tasks = [s \in Slots |-> IdleTask]
    /\ last = NoEvent
    /\ ledger = [NoLedger EXCEPT !.counting = TRUE]

NextLedger ==
    \/ \E u \in Users, pid \in Products : add_item(u, pid)
    \/ \E u \in Users : ledger.sessions[u] < MaxSessions /\ checkout_start(u)
    \/ \E u \in Users, text \in DialogueTexts : checkout_flow(u, text)
    \/ \E s \in Slots, ok \in BOOLEAN :
          /\ tasks[s].pc = "send_message"
          /\ ledger.orders[tasks[s].uid] <= MaxSessions
          /\ send_message_done(s, ok)
    \/ \E s \in Slots, ok \in BOOLEAN : send_contact_done(s, ok)
    \/ \E s \in Slots, ok \in BOOLEAN : answer_done(s, ok)

SpecLedger == InitLedger /\ [][NextLedger]_vars

\* C17: the orders dispatched to the operator for a user never exceed the
\* checkout sessions the user has started.
C17_OrdersWithinSessions ==
    \A u \in Users : ledger.orders[u] <= ledger.sessions[u]

====
